---- MODULE Spec2Model ----
(***************************************************************************)
(* Sentence-by-sentence paragraph revision of write-aid.                   *)
(*                                                                         *)
(* The model follows one request through handler.do_POST,                  *)
(* WriteAidProcessor.process_paragraph and the FinChatClient protocol      *)
(* (create session, submit, poll until idle, fetch result) of              *)
(* api/analyze.py; the variable deployment selects the                     *)
(* backend/app.py variant of the same pipeline (one round, forward order,  *)
(* fixed poll backoff).  The remote service is the environment: every      *)
(* response it can give is a nondeterministic choice inside the action     *)
(* that issues the call.                                                   *)
(*                                                                         *)
(* Text is a sequence of one-character strings.  Python's None is the      *)
(* empty sequence None and a present value x is Some(x) = <<x>>.           *)
(***************************************************************************)
EXTENDS Integers, Sequences, FiniteSets, TLC

\* ------------------------------------------------------------------------
\* Bounds of the model
\* ------------------------------------------------------------------------

\* largest number of sentences of an input paragraph
MaxSentences == 2

\* ------------------------------------------------------------------------
\* Optional values
\* ------------------------------------------------------------------------

None == <<>>

Some(x) == <<x>>

\* ------------------------------------------------------------------------
\* Text
\* ------------------------------------------------------------------------

a_dot == <<"a", ".">>

aa_dot == <<"a", "a", ".">>

b_dot == <<"b", ".">>

\* sentence-terminal punctuation of the splitter's look-behind [.!?]
Terminators == {".", "!", "?"}

\* characters matched by \s
IsSpace(c) == c \in {" ", "\t", "\n"}

RECURSIVE lstrip(_)
lstrip(s) == IF s = <<>> \/ ~IsSpace(Head(s)) THEN s ELSE lstrip(Tail(s))

RECURSIVE rstrip(_)
rstrip(s) ==
    IF s = <<>> \/ ~IsSpace(s[Len(s)]) THEN s ELSE rstrip(SubSeq(s, 1, Len(s) - 1))

\* str.strip()
strip(s) == rstrip(lstrip(s))

\* end of the maximal whitespace run of s that starts at i
RECURSIVE RunEnd(_, _)
RunEnd(s, i) == IF i < Len(s) /\ IsSpace(s[i + 1]) THEN RunEnd(s, i + 1) ELSE i

\* the pattern (?<=[.!?])\s+ matches at i: whitespace right after a terminator
MatchesAt(s, i) == i > 1 /\ IsSpace(s[i]) /\ s[i - 1] \in Terminators

\* re.split(sentence_pattern, s), scanning from i with the current piece
\* starting at start
RECURSIVE re_split(_, _, _)
re_split(s, i, start) ==
    IF i > Len(s) THEN << SubSeq(s, start, Len(s)) >>
    ELSE IF MatchesAt(s, i)
         THEN << SubSeq(s, start, i - 1) >>
                  \o re_split(s, RunEnd(s, i) + 1, RunEnd(s, i) + 1)
         ELSE re_split(s, i + 1, start)

\* [s.strip() for s in sentences if s.strip()]
RECURSIVE clean(_)
clean(pieces) ==
    IF pieces = <<>> THEN <<>>
    ELSE IF strip(Head(pieces)) # <<>>
         THEN << strip(Head(pieces)) >> \o clean(Tail(pieces))
         ELSE clean(Tail(pieces))

\* variant of split_paragraph: the stripped paragraph as its only sentence
split_paragraph_unsplit(p) == clean(<< strip(p) >>)

\* SentenceSplitter.split_paragraph
split_paragraph(p) == clean(re_split(strip(p), 1, 1))

\* old occurs in s at position i (1-based)
OccursAt(s, old, i) ==
    /\ i >= 1
    /\ i + Len(old) - 1 <= Len(s)
    /\ SubSeq(s, i, i + Len(old) - 1) = old

\* positions at which old occurs in s
Occurrences(s, old) == { i \in 1..(Len(s) + 1) : OccursAt(s, old, i) }

MinOf(S) == CHOOSE m \in S : \A n \in S : m <= n

\* s.replace(old, new, 1)
replace_first(s, old, new) ==
    IF Occurrences(s, old) = {} THEN s
    ELSE LET i == MinOf(Occurrences(s, old))
         IN  SubSeq(s, 1, i - 1) \o new \o SubSeq(s, i + Len(old), Len(s))

\* ------------------------------------------------------------------------
\* Inputs
\* ------------------------------------------------------------------------

\* sentences the input paragraphs are built from; a_dot occurs inside aa_dot
Words == {a_dot, aa_dot}

\* texts the remote service can return as the 'content' of a result
Revisions == {b_dot}

RECURSIVE JoinWords(_)
JoinWords(ws) ==
    IF Len(ws) = 1 THEN ws[1] ELSE ws[1] \o <<" ">> \o JoinWords(Tail(ws))

\* the request paragraphs: 1..MaxSentences words separated by one blank, aa_dot
\* at most once
Paragraphs ==
    UNION { { JoinWords(ws) :
                  ws \in { w \in [1..n -> Words] :
                               Cardinality({ i \in 1..n : w[i] = aa_dot }) <= 1 } } :
            n \in 1..MaxSentences }

Directions == {"first-to-last", "last-to-first"}

\* "api" is api/analyze.py, "backend" is backend/app.py
Deployments == {"api", "backend"}

initial_author == "EB White"

reprocessing_author == "Hemingway"

\* ------------------------------------------------------------------------
\* Program constants
\* ------------------------------------------------------------------------

FINCHAT_BACKOFF_SECONDS == 5

backoff_intervals == <<30, 15, 10, 5, 1>>

\* wait_till_idle's default log_at_checks
log_at_checks == 5

max_sentences_safe == 1

\* do_POST rejects reprocessing_rounds > 1
max_reprocessing_rounds == 1

stage_a_max_retries == 5

stage_b_max_retries == 3

\* ------------------------------------------------------------------------
\* The request body
\* ------------------------------------------------------------------------

\* the request body's 'paragraph' entry: absent, empty, blank, or a paragraph
BodyParagraphs ==
    {None} \cup { Some(p) : p \in {<<>>, <<" ">>} \cup Paragraphs }

\* the request body's 'processing_direction': the two directions and another text
BodyDirections == Directions \cup {"sideways"}

\* the request body's 'reprocessing_rounds': the accepted values and their
\* neighbours
BodyRounds == (0 - 1)..(max_reprocessing_rounds + 1)

\* ------------------------------------------------------------------------
\* State
\* ------------------------------------------------------------------------

VARIABLES
    deployment,            \* which of the two source files runs the request
    data_paragraph,        \* the request body's 'paragraph' entry, None if absent
    paragraph,             \* process_paragraph's argument
    processing_direction,  \* the request's value, process_paragraph's argument
    reprocessing_rounds,   \* the request's value, process_paragraph's argument
    remote_revisions,      \* the texts the remote service may return as 'content'
    pc,                    \* position of the request's thread of control
    response,              \* the HTTP response sent for the request, None before
    logs,                  \* self.logs: the kinds of the lines logged before the rounds
    original_sentences,    \* process_paragraph local
    current_paragraph,     \* process_paragraph local
    current_sentences,     \* process_paragraph local
    round_num,             \* process_paragraph loop variable
    processing_order,      \* number of sentences of the round already visited
    round_results,         \* process_paragraph local
    all_rounds_results,    \* process_paragraph local
    session_id,            \* process_sentence_with_author local
    check_count,           \* wait_till_idle local
    session_status,        \* wait_till_idle local: status seen by the last poll
    current_backoff,       \* wait_till_idle local: the last sleep, 0 before any
    retries,               \* get_result local
    result_id,             \* get_result local
    remote_called,         \* a remote call was issued for the request
    last_call,             \* the remote call the sentence's processing issued last
    last_call_failed,      \* that call raised (status >= 400, or a body without "id")
    message,               \* the request submitted for the sentence, None before
    analysis,              \* get_result's return value for the sentence
    calls,                 \* numbers of creation and submission calls issued for the sentence
    log_collector,         \* the kinds of the lines in the client's log_collector
    result,                \* outcome returned by process_sentence_with_author
    report,                \* process_paragraph's return value
    threads,               \* backend/app.py: the locals of the requests served concurrently
    buffers                \* backend/app.py: the paragraph buffers, by their owner

vars == << deployment, data_paragraph, paragraph, processing_direction,
           reprocessing_rounds, remote_revisions, pc, response, logs,
           original_sentences, current_paragraph, current_sentences, round_num,
           processing_order, round_results, all_rounds_results,
           session_id, check_count, session_status, current_backoff, retries,
           result_id, remote_called, last_call, last_call_failed, message,
           analysis, calls, log_collector, result, report, threads, buffers >>

\* the state of the single request followed step by step through its remote calls
handler_state ==
    << deployment, data_paragraph, paragraph, processing_direction,
       reprocessing_rounds, remote_revisions, pc, response, logs,
       original_sentences, current_paragraph, current_sentences, round_num,
       processing_order, round_results, all_rounds_results,
       session_id, check_count, session_status, current_backoff, retries,
       result_id, remote_called, last_call, last_call_failed, message,
       analysis, calls, log_collector, result, report >>

\* the state of the requests served concurrently by backend/app.py
concurrent_state == << threads, buffers >>

inputs == << deployment, data_paragraph, paragraph, processing_direction,
             reprocessing_rounds, remote_revisions >>

paragraph_state == << original_sentences, current_paragraph, current_sentences >>

round_state == << round_num, processing_order, round_results, all_rounds_results >>

poll_state == << check_count, session_status, current_backoff >>

fetch_state == << retries, result_id >>

\* what is known of the calls issued for the sentence being visited
call_trace == << last_call_failed, message, analysis, calls >>

\* what the handler has sent and logged, and whether it has called the service
request_state == << response, logs, remote_called >>

\* value of calls before the sentence's first call
NoCalls == [ create |-> 0, submit |-> 0 ]

\* value of result while no sentence outcome is pending
NoResult ==
    [ sentence_index |-> 0, sentence |-> <<>>, improved_sentence |-> None,
      success |-> FALSE, error |-> None, session_id |-> None,
      author_used |-> "", round |-> 0, is_reprocessing |-> FALSE ]

\* value of report before process_paragraph returns
NoReport ==
    [ original_paragraph |-> <<>>, final_paragraph |-> <<>>,
      sentence_results |-> <<>>, total_sentences |-> 0,
      successful_analyses |-> 0, failed_analyses |-> 0,
      reprocessing_rounds |-> 0, all_rounds_results |-> <<>>,
      paragraph_updated |-> FALSE, total_rounds_processed |-> 0,
      logs |-> <<>> ]

\* the state before the handler has read the request: everything but the
\* request itself and the remote service's texts
IdleHandler ==
    /\ paragraph = <<>>
    /\ pc = "post"
    /\ response = None
    /\ logs = <<>>
    /\ original_sentences = <<>>
    /\ current_paragraph = <<>>
    /\ current_sentences = <<>>
    /\ round_num = 0
    /\ processing_order = 0
    /\ round_results = <<>>
    /\ all_rounds_results = <<>>
    /\ session_id = None
    /\ check_count = 0
    /\ session_status = "none"
    /\ current_backoff = 0
    /\ retries = 0
    /\ result_id = None
    /\ remote_called = FALSE
    /\ last_call = "none"
    /\ last_call_failed = FALSE
    /\ message = None
    /\ analysis = None
    /\ calls = NoCalls
    /\ log_collector = {}
    /\ result = NoResult
    /\ report = NoReport

\* one request is followed: no other request is being served
InitLocals ==
    /\ IdleHandler
    /\ threads = <<>>
    /\ buffers = <<>>

Init ==
    /\ deployment \in Deployments
    /\ data_paragraph \in BodyParagraphs
    /\ processing_direction \in
           IF deployment = "api" THEN BodyDirections ELSE {"first-to-last"}
    /\ reprocessing_rounds \in IF deployment = "api" THEN BodyRounds ELSE {0}
    /\ remote_revisions = Revisions
    /\ InitLocals

\* ------------------------------------------------------------------------
\* The remote service's answers and the errors calls raise
\* ------------------------------------------------------------------------

\* call_remote: status >= 400 raises ValueError
http_error == [ type |-> "ValueError", msg |-> "Failed to call" ]

\* session["id"] on a body without "id"
missing_id == [ type |-> "KeyError", msg |-> "'id'" ]

\* answers to POST /api/v1/sessions/
CreateResponses == {"ok", "http_error", "no_id"}

\* answers to POST /api/v1/chats/
SubmitResponses == {"ok", "http_error"}

\* answers to GET /api/v1/sessions/{id}/
PollResponses == {"idle", "active", "http_error"}

\* answers to GET /api/v1/chats/?session_id=: an error, an empty results list,
\* a last message without result_id, with result_id "", with a result_id
MessageResponses ==
    {"http_error", "no_messages", "no_result_id", "empty_result_id", "result_id"}

\* bodies of GET /api/v1/results/{id}/: JSON null, a non-empty array, {}, an object without
\* 'content', an object with 'content' (possibly the empty string)
Payloads ==
    { [ kind |-> k, content |-> <<>> ] :
          k \in {"null", "array", "empty_object", "no_content"} }
        \cup { [ kind |-> "content", content |-> c ] : c \in remote_revisions \cup {<<>>} }

\* ------------------------------------------------------------------------
\* FinChatClient
\* ------------------------------------------------------------------------

\* variant of current_backoff_of: the schedule indexed one poll too far
current_backoff_of_shifted(count) ==
    IF deployment = "backend" THEN FINCHAT_BACKOFF_SECONDS
    ELSE IF count + 1 <= Len(backoff_intervals)
         THEN backoff_intervals[count + 1]
         ELSE backoff_intervals[Len(backoff_intervals)]

\* wait_till_idle: the sleep after the check_count-th poll found the session busy
current_backoff_of(count) ==
    IF deployment = "backend" THEN FINCHAT_BACKOFF_SECONDS
    ELSE IF count <= Len(backoff_intervals)
         THEN backoff_intervals[count]
         ELSE backoff_intervals[Len(backoff_intervals)]

\* variant of wait_loop_exits: the loop ends after the first poll, whatever the
\* status
wait_loop_exits_at_once(status, count) == count >= 1

\* variant of wait_loop_exits: the loop gives up after three polls
wait_loop_exits_capped(status, count) == status = "idle" \/ count >= 3

\* wait_till_idle: the test that breaks out of `while True`
wait_loop_exits(status, count) == status = "idle"

\* check_count += 1.  Beyond the schedule the loop reads check_count only in
\* `check_count % log_at_checks`, so a count above Len(backoff_intervals) is
\* kept as the member of its residue class in
\* Len(backoff_intervals)+1 .. Len(backoff_intervals)+log_at_checks
next_check_count(count) ==
    IF count < Len(backoff_intervals) + log_at_checks
    THEN count + 1
    ELSE Len(backoff_intervals) + 1

\* FinChatClient.__init__, `log_collector or []`: the list passed if it is not
\* empty, a list of the client's own otherwise
log_collector_of(passed) == IF passed # <<>> THEN "passed" ELSE "own"

\* process_paragraph: `self.logs = []` and then `FinChatClient(self.logs)`
client_uses_logs == log_collector_of(<<>>) = "passed"

\* variant of stage_a_loop_continues: `while retries <= max_retries and ...`
stage_a_loop_continues_once_more(ret, rid) ==
    ret <= stage_a_max_retries /\ rid = None

\* get_result, Stage A: `while retries < max_retries and result_id is None`
stage_a_loop_continues(ret, rid) == ret < stage_a_max_retries /\ rid = None

\* variant of stage_b_loop_continues: `while retries <= max_retries`
stage_b_loop_continues_once_more(ret) == ret <= stage_b_max_retries

\* get_result, Stage B: `while retries < max_retries`
stage_b_loop_continues(ret) == ret < stage_b_max_retries

\* variant of extract_improved_sentence: without the `if improved_sentence` test
extract_improved_sentence_any_content(analysis_result) ==
    IF analysis_result.kind = "content"
    THEN Some(analysis_result.content)
    ELSE None

\* extract_improved_sentence, on a result payload
extract_improved_sentence(analysis_result) ==
    IF analysis_result.kind = "content"
    THEN IF analysis_result.content # <<>>
         THEN Some(analysis_result.content)
         ELSE None
    ELSE None

\* truth value of get_result's return value in `if result`
result_is_truthy(res) ==
    res # None /\ res[1].kind \notin {"null", "empty_object"}

\* truth value of an optional text in `if x`
is_truthy(opt) == opt # None /\ opt[1] # <<>>

\* ------------------------------------------------------------------------
\* WriteAidProcessor
\* ------------------------------------------------------------------------

RECURSIVE range_up(_, _)
range_up(lo, hi) == IF lo >= hi THEN <<>> ELSE <<lo>> \o range_up(lo + 1, hi)

RECURSIVE range_down(_)
range_down(hi) == IF hi < 0 THEN <<>> ELSE <<hi>> \o range_down(hi - 1)

\* variant of processing_indices: only the first max_sentences_safe sentences
processing_indices_limited(direction, n) ==
    IF direction = "last-to-first"
    THEN range_down((IF n > max_sentences_safe THEN max_sentences_safe ELSE n) - 1)
    ELSE range_up(0, IF n > max_sentences_safe THEN max_sentences_safe ELSE n)

\* process_paragraph: the visiting order of the round's sentences (0-based)
processing_indices(direction, n) ==
    IF direction = "last-to-first" THEN range_down(n - 1) ELSE range_up(0, n)

\* variant of round_count: range(max(1, reprocessing_rounds))
round_count_short(rounds) == IF rounds = 0 THEN 1 ELSE rounds

\* process_paragraph: range(1 + reprocessing_rounds)
round_count(rounds) == 1 + rounds

\* variant of current_author: the initial author in every round
current_author_initial_only == initial_author

\* process_paragraph: the author of the round
current_author ==
    IF deployment = "backend" THEN initial_author
    ELSE IF round_num = 0 THEN initial_author ELSE reprocessing_author

\* process_paragraph: the index i of the sentence being visited
cur_index ==
    processing_indices(processing_direction, Len(current_sentences))[processing_order + 1]

target_sentence == current_sentences[cur_index + 1]

\* the id the remote service gives the session of this sentence and round:
\* ids are opaque and fresh, so the (round, index) pair stands for it
new_session_id == << round_num + 1, cur_index >>

\* variant of ExceptionCaught: `except ValueError`
ExceptionCaught_ValueErrorOnly(e) == e.type = "ValueError"

\* process_sentence_with_author: `except Exception` catches every error a call raises
ExceptionCaught(e) == e.type \in {"ValueError", "KeyError", "ConnectionError"}

\* variant of failed_outcome: the except branch forgets the "error" entry
failed_outcome_without_detail(e) ==
    [ sentence_index |-> cur_index, sentence |-> target_sentence,
      improved_sentence |-> None, success |-> FALSE, error |-> None,
      session_id |-> None, author_used |-> current_author,
      round |-> 0, is_reprocessing |-> FALSE ]

\* process_sentence_with_author: the dictionary returned by the except branch
failed_outcome(e) ==
    [ sentence_index |-> cur_index, sentence |-> target_sentence,
      improved_sentence |-> None, success |-> FALSE, error |-> Some(e.msg),
      session_id |-> None, author_used |-> current_author,
      round |-> 0, is_reprocessing |-> FALSE ]

\* variant of successful_outcome: success only when a revision was extracted
successful_outcome_if_revised(res) ==
    [ sentence_index |-> cur_index, sentence |-> target_sentence,
      improved_sentence |->
          IF result_is_truthy(res) THEN extract_improved_sentence(res[1]) ELSE None,
      success |-> result_is_truthy(res) /\ extract_improved_sentence(res[1]) # None,
      error |-> None,
      session_id |-> session_id, author_used |-> current_author,
      round |-> 0, is_reprocessing |-> FALSE ]

\* process_sentence_with_author: the dictionary returned by the try branch
successful_outcome(res) ==
    [ sentence_index |-> cur_index, sentence |-> target_sentence,
      improved_sentence |->
          IF result_is_truthy(res) THEN extract_improved_sentence(res[1]) ELSE None,
      success |-> TRUE, error |-> None,
      session_id |-> session_id, author_used |-> current_author,
      round |-> 0, is_reprocessing |-> FALSE ]

\* process_paragraph: `if result['success'] and result['improved_sentence']`
should_update(r) == r.success /\ is_truthy(r.improved_sentence)

\* variant of updated_paragraph: a failed sentence is replaced by the empty text
updated_paragraph_unguarded(para, old, r) ==
    IF should_update(r) THEN replace_first(para, old, r.improved_sentence[1])
    ELSE IF ~r.success THEN replace_first(para, old, <<>>)
    ELSE para

\* variant of updated_paragraph: the guard is `if result['success']` alone, a
\* missing revision counts as the empty text
updated_paragraph_on_success(para, old, r) ==
    IF r.success
    THEN replace_first(para, old, IF r.improved_sentence # None
                                  THEN r.improved_sentence[1] ELSE <<>>)
    ELSE para

\* process_paragraph: the paragraph after the step with outcome r for sentence old
updated_paragraph(para, old, r) ==
    IF should_update(r) THEN replace_first(para, old, r.improved_sentence[1]) ELSE para

\* variant of updated_sentences: the sentence list is never updated
updated_sentences_kept(sentences, i, r) == sentences

\* process_paragraph: the sentence list after the step with outcome r for index i
updated_sentences(sentences, i, r) ==
    IF should_update(r)
    THEN [ sentences EXCEPT ![i + 1] = r.improved_sentence[1] ]
    ELSE sentences

\* sorted(results, key=sentence_index): stable insertion sort
RECURSIVE sorted_by_index(_)
sorted_by_index(rs) ==
    IF rs = <<>> THEN <<>>
    ELSE LET t == sorted_by_index(SubSeq(rs, 1, Len(rs) - 1))
             r == rs[Len(rs)]
             k == Cardinality({ j \in 1..Len(t) : t[j].sentence_index <= r.sentence_index })
         IN  SubSeq(t, 1, k) \o <<r>> \o SubSeq(t, k + 1, Len(t))

\* variant of sorted_results: the final round's results are returned as recorded
unsorted_results(final_round_results) == final_round_results

\* process_paragraph: sorted_results
sorted_results(final_round_results) == sorted_by_index(final_round_results)

\* len([r for r in rs if r["success"] = flag])
count_success(rs, flag) == Cardinality({ j \in 1..Len(rs) : rs[j].success = flag })

\* process_paragraph: original_sentences, cut to max_sentences_safe in api/analyze.py
limited_sentences(sentences) ==
    IF deployment = "api" /\ Len(sentences) > max_sentences_safe
    THEN SubSeq(sentences, 1, max_sentences_safe)
    ELSE sentences

\* process_paragraph: the kinds of the lines appended to self.logs before the
\* loop over the rounds, for a paragraph of n sentences; backend/app.py keeps
\* no such list
preamble_logs(n, rounds) ==
    IF deployment = "backend" THEN <<>>
    ELSE <<"start", "found">>
         \o (IF n > max_sentences_safe
             THEN <<"truncation_notice", "run_locally_hint">> ELSE <<>>)
         \o <<"processing", "direction", "rounds", "sequential">>
         \o (IF rounds > 0 THEN <<"total">> ELSE <<>>)

\* variant of write_aid_message: the original paragraph is sent as context
write_aid_message_original ==
    [ sentence |-> target_sentence, full_paragraph |-> paragraph,
      author |-> current_author ]

\* send_write_aid_request's arguments for the sentence being visited
write_aid_message ==
    [ sentence |-> target_sentence, full_paragraph |-> current_paragraph,
      author |-> current_author ]

\* variant of max_workers: do_POST passes 0
max_workers_zero == IF deployment = "api" THEN 0 ELSE 2

\* WriteAidProcessor.max_workers: do_POST passes 1, backend/app.py's global
\* processor is built with the default 2
max_workers == IF deployment = "api" THEN 1 ELSE 2

\* ------------------------------------------------------------------------
\* do_POST (api/analyze.py) and analyze_paragraph (backend/app.py)
\* ------------------------------------------------------------------------

\* `processing_direction not in ['first-to-last', 'last-to-first']` is false
valid_direction(direction) == direction \in Directions

\* variant of valid_rounds: only negative values are refused
valid_rounds_nonnegative(rounds) == rounds >= 0

\* `reprocessing_rounds < 0 or reprocessing_rounds > 1` is false
valid_rounds(rounds) == rounds >= 0 /\ rounds <= max_reprocessing_rounds

\* the message of the first validation that fails, None if the request passes;
\* backend/app.py validates the paragraph only
validation_error ==
    IF data_paragraph = None
    THEN Some("Missing 'paragraph' in request body")
    ELSE IF strip(data_paragraph[1]) = <<>>
    THEN Some("Paragraph cannot be empty")
    ELSE IF deployment = "api" /\ ~valid_direction(processing_direction)
    THEN Some("Invalid processing_direction")
    ELSE IF deployment = "api" /\ ~valid_rounds(reprocessing_rounds)
    THEN Some("Invalid reprocessing_rounds")
    ELSE None

\* ------------------------------------------------------------------------
\* Actions
\* ------------------------------------------------------------------------

\* do_POST (analyze_paragraph in backend/app.py) up to the call of
\* process_paragraph: the request is validated; a request that fails is
\* answered with status 400, the paragraph of one that passes is stripped
do_POST ==
    /\ pc = "post"
    /\ IF validation_error # None
       THEN /\ response' = Some([ status |-> 400, error |-> validation_error[1] ])
            /\ pc' = "rejected"
            /\ UNCHANGED paragraph
       ELSE /\ paragraph' = strip(data_paragraph[1])
            /\ pc' = "request"
            /\ UNCHANGED response
    /\ UNCHANGED << deployment, data_paragraph, processing_direction,
                    reprocessing_rounds, remote_revisions, logs, remote_called,
                    paragraph_state, round_state, session_id, poll_state,
                    fetch_state, last_call, call_trace, log_collector, result,
                    report >>
    /\ UNCHANGED concurrent_state

\* FinChatClient.log_and_store for lines of the kinds ks: they go to the client's
\* log_collector, which is self.logs only if the client was built on it.  Of the
\* client's lines the kinds kept are: API call, response status, session
\* created, waiting, idle.  The client of backend/app.py only writes to the logger.
log_and_store(ks) ==
    /\ log_collector' =
           IF deployment = "backend" THEN log_collector
           ELSE log_collector \cup { ks[j] : j \in 1..Len(ks) }
    /\ logs' =
           IF deployment = "api" /\ client_uses_logs THEN logs \o ks ELSE logs

\* the locals of the client calls go out of scope when the sentence is done
ForgetCallLocals ==
    /\ session_id' = None
    /\ check_count' = 0
    /\ session_status' = "none"
    /\ current_backoff' = 0
    /\ retries' = 0
    /\ result_id' = None

\* process_sentence_with_author returns r to process_paragraph
ReturnOutcome(r) ==
    /\ pc' = "update"
    /\ result' = r
    /\ ForgetCallLocals

\* variant of Raise: the sentence is tried again from the session creation
Raise_and_retry(e) ==
    /\ pc' = "sentence"
    /\ result' = result
    /\ ForgetCallLocals
    /\ UNCHANGED analysis

\* variant of Raise: the error is swallowed and the sentence's processing goes on
\* with the submission
Raise_and_go_on(e) ==
    /\ pc' = "submit"
    /\ result' = result
    /\ ForgetCallLocals
    /\ UNCHANGED analysis

\* a call inside process_sentence_with_author's try block raises e
Raise(e) ==
    /\ IF ExceptionCaught(e)
       THEN ReturnOutcome(failed_outcome(e))
       ELSE /\ pc' = "raised"
            /\ result' = result
            /\ ForgetCallLocals
    /\ UNCHANGED analysis

\* process_paragraph up to the loop over the rounds
process_paragraph_begin ==
    /\ pc = "request"
    /\ original_sentences' = limited_sentences(split_paragraph(paragraph))
    /\ logs' = preamble_logs(Len(split_paragraph(paragraph)), reprocessing_rounds)
    /\ log_collector' = {}
    /\ current_paragraph' = paragraph
    /\ all_rounds_results' = <<>>
    /\ round_num' = 0
    /\ pc' = "round"
    /\ UNCHANGED << last_call, call_trace, response, remote_called >>
    /\ UNCHANGED << inputs, current_sentences, processing_order, round_results,
                    session_id, poll_state, fetch_state, result, report >>
    /\ UNCHANGED concurrent_state

\* variant of round_sentences: every round segments the original paragraph
round_sentences_of_original == split_paragraph(paragraph)

\* process_paragraph: `current_sentences = split_paragraph(current_paragraph)` at
\* the start of a round
round_sentences == split_paragraph(current_paragraph)

\* one iteration of `for round_num in range(...)` up to the loop over the sentences
round_begin ==
    /\ pc = "round"
    /\ round_num < round_count(reprocessing_rounds)
    /\ current_sentences' = round_sentences
    /\ round_results' = <<>>
    /\ processing_order' = 0
    /\ pc' = "sentence"
    /\ UNCHANGED << last_call, call_trace, request_state, log_collector >>
    /\ UNCHANGED << inputs, original_sentences, current_paragraph, round_num,
                    all_rounds_results, session_id, poll_state,
                    fetch_state, result, report >>
    /\ UNCHANGED concurrent_state

\* the next sentence of the round: process_sentence_with_author up to create_session
create_session ==
    /\ pc = "sentence"
    /\ processing_order < Len(processing_indices(processing_direction,
                                                 Len(current_sentences)))
    /\ \E resp \in CreateResponses :
          /\ CASE resp = "ok" ->
                      /\ session_id' = Some(new_session_id)
                      /\ pc' = "submit"
                      /\ UNCHANGED << poll_state, fetch_state, result, analysis >>
               [] resp = "http_error" ->
                      Raise(http_error)
               [] resp = "no_id" ->
                      Raise(missing_id)
          /\ last_call_failed' = (resp # "ok")
          /\ log_and_store(<<"api_call", "response_status">>
                               \o (IF resp = "ok" THEN <<"session_created">> ELSE <<>>))
    /\ last_call' = "create"
    /\ calls' = [ calls EXCEPT !.create = @ + 1 ]
    /\ remote_called' = TRUE
    /\ UNCHANGED << message, response >>
    /\ UNCHANGED << inputs, paragraph_state, round_state, report >>
    /\ UNCHANGED concurrent_state

\* send_write_aid_request
send_write_aid_request ==
    /\ pc = "submit"
    /\ message' = Some(write_aid_message)
    /\ \E resp \in SubmitResponses :
          /\ CASE resp = "ok" ->
                      /\ pc' = "poll"
                      /\ UNCHANGED << session_id, poll_state, fetch_state, result,
                                      analysis >>
               [] resp = "http_error" -> Raise(http_error)
          /\ last_call_failed' = (resp # "ok")
    /\ log_and_store(<<"api_call", "response_status">>)
    /\ last_call' = "submit"
    /\ calls' = [ calls EXCEPT !.submit = @ + 1 ]
    /\ remote_called' = TRUE
    /\ UNCHANGED response
    /\ UNCHANGED << inputs, paragraph_state, round_state, report >>
    /\ UNCHANGED concurrent_state

\* one iteration of wait_till_idle's loop: a poll, then the exit test or the sleep
wait_till_idle_poll ==
    /\ pc = "poll"
    /\ \E resp \in PollResponses :
          /\ IF resp = "http_error"
             THEN Raise(http_error)
             ELSE /\ check_count' = next_check_count(check_count)
                  /\ session_status' = resp
                  /\ IF wait_loop_exits(resp, next_check_count(check_count))
                     THEN /\ pc' = "messages"
                          /\ UNCHANGED current_backoff
                     ELSE /\ pc' = "poll"
                          /\ current_backoff' =
                                 current_backoff_of(next_check_count(check_count))
                  /\ UNCHANGED << session_id, fetch_state, result, analysis >>
          /\ last_call_failed' = (resp = "http_error")
          /\ log_and_store(<<"waiting", "api_call", "response_status">>
                               \o (IF resp = "idle" THEN <<"idle">> ELSE <<>>))
    /\ last_call' = "poll"
    /\ remote_called' = TRUE
    /\ UNCHANGED << message, calls, response >>
    /\ UNCHANGED << inputs, paragraph_state, round_state, report >>
    /\ UNCHANGED concurrent_state

\* get_result returns res (None or Some(payload)); process_sentence_with_author
\* extracts the improved sentence and returns the successful outcome
get_result_returns(res) ==
    /\ ReturnOutcome(successful_outcome(res))
    /\ analysis' = res

\* variant of stage_a_raises: the error of the message query is caught and
\* get_result returns None
stage_a_raises_caught(e) == get_result_returns(None)

\* get_result, Stage A: the message query is called outside any try block, so
\* its error leaves get_result
stage_a_raises(e) == Raise(e)

\* Stage A of get_result: one iteration of the loop that looks for a result_id
get_result_messages ==
    /\ pc = "messages"
    /\ \E resp \in MessageResponses :
          /\ IF resp = "http_error"
             THEN stage_a_raises(http_error)
             ELSE LET rid == CASE resp = "result_id" -> Some("res")
                               [] resp = "empty_result_id" -> Some("")
                               [] OTHER -> None
                      ret == IF rid = None THEN retries + 1 ELSE retries
                  IN  IF stage_a_loop_continues(ret, rid)
                      THEN /\ retries' = ret
                           /\ pc' = "messages"
                           /\ UNCHANGED << session_id, poll_state, result_id,
                                           result, analysis >>
                      ELSE IF rid = None
                           THEN get_result_returns(None)
                           ELSE /\ result_id' = rid
                                /\ retries' = 0
                                /\ pc' = "fetch"
                                /\ UNCHANGED << session_id, poll_state, result,
                                                analysis >>
          /\ last_call_failed' = (resp = "http_error")
    /\ log_and_store(<<"api_call", "response_status">>)
    /\ last_call' = "messages"
    /\ remote_called' = TRUE
    /\ UNCHANGED << message, calls, response >>
    /\ UNCHANGED << inputs, paragraph_state, round_state, report >>
    /\ UNCHANGED concurrent_state

\* Stage B of get_result: one iteration of the loop that fetches the analysis;
\* the fetch answers with a payload or fails
get_result_fetch ==
    /\ pc = "fetch"
    /\ \/ /\ \E payload \in Payloads :
                get_result_returns(IF payload.kind = "null" THEN None
                                   ELSE Some(payload))
          /\ last_call_failed' = FALSE
       \/ /\ IF stage_b_loop_continues(retries + 1)
             THEN /\ retries' = retries + 1
                  /\ pc' = "fetch"
                  /\ UNCHANGED << session_id, poll_state, result_id, result,
                                  analysis >>
             ELSE get_result_returns(None)
          /\ last_call_failed' = TRUE
    /\ log_and_store(<<"api_call", "response_status">>)
    /\ last_call' = "fetch"
    /\ remote_called' = TRUE
    /\ UNCHANGED << message, calls, response >>
    /\ UNCHANGED << inputs, paragraph_state, round_state, report >>
    /\ UNCHANGED concurrent_state

\* process_paragraph after process_sentence_with_author returned: the outcome is
\* recorded and the paragraph and the sentence list are updated
update_paragraph ==
    /\ pc = "update"
    /\ LET r == [ result EXCEPT !.round = round_num + 1,
                                !.is_reprocessing = round_num > 0 ]
       IN  /\ round_results' = Append(round_results, r)
           /\ current_paragraph' =
                  updated_paragraph(current_paragraph, current_sentences[cur_index + 1], r)
           /\ current_sentences' = updated_sentences(current_sentences, cur_index, r)
    /\ processing_order' = processing_order + 1
    /\ result' = NoResult
    /\ last_call' = "none"
    /\ last_call_failed' = FALSE
    /\ message' = None
    /\ analysis' = None
    /\ calls' = NoCalls
    /\ pc' = "sentence"
    /\ UNCHANGED << request_state, log_collector >>
    /\ UNCHANGED << inputs, original_sentences, round_num, all_rounds_results,
                    session_id, poll_state, fetch_state, report >>
    /\ UNCHANGED concurrent_state

\* the round's sentences are all visited: the round's report is stored
round_end ==
    /\ pc = "sentence"
    /\ processing_order >= Len(processing_indices(processing_direction,
                                                  Len(current_sentences)))
    /\ all_rounds_results' =
           Append(all_rounds_results,
                  [ round |-> round_num + 1,
                    is_reprocessing |-> round_num > 0,
                    results |-> round_results,
                    paragraph_after_round |-> current_paragraph ])
    /\ round_num' = round_num + 1
    /\ pc' = "round"
    /\ UNCHANGED << last_call, call_trace, request_state, log_collector >>
    /\ UNCHANGED << inputs, paragraph_state, processing_order, round_results,
                    session_id, poll_state, fetch_state, result, report >>
    /\ UNCHANGED concurrent_state

\* process_paragraph's return value
final_report ==
    LET final_round_results ==
            IF all_rounds_results # <<>>
            THEN all_rounds_results[Len(all_rounds_results)].results
            ELSE <<>>
        sorted == sorted_results(final_round_results)
    IN  [ original_paragraph |-> paragraph,
          final_paragraph |-> current_paragraph,
          sentence_results |-> sorted,
          total_sentences |-> Len(original_sentences),
          successful_analyses |-> count_success(sorted, TRUE),
          failed_analyses |-> count_success(sorted, FALSE),
          reprocessing_rounds |-> reprocessing_rounds,
          all_rounds_results |-> all_rounds_results,
          paragraph_updated |-> current_paragraph # paragraph,
          total_rounds_processed |-> Len(all_rounds_results),
          logs |-> logs ]

\* the loop over the rounds is over: process_paragraph returns its report and
\* the handler sends it with status 200
process_paragraph_return ==
    /\ pc = "round"
    /\ round_num >= round_count(reprocessing_rounds)
    /\ report' = final_report
    /\ response' = Some([ status |-> 200, error |-> "" ])
    /\ pc' = "done"
    /\ UNCHANGED << last_call, call_trace, logs, remote_called, log_collector >>
    /\ UNCHANGED << inputs, paragraph_state, round_state, session_id,
                    poll_state, fetch_state, result >>
    /\ UNCHANGED concurrent_state

Next ==
    \/ do_POST
    \/ process_paragraph_begin
    \/ round_begin
    \/ create_session
    \/ send_write_aid_request
    \/ wait_till_idle_poll
    \/ get_result_messages
    \/ get_result_fetch
    \/ update_paragraph
    \/ round_end
    \/ process_paragraph_return

Spec == Init /\ [][Next]_vars

\* valid requests, visited first to last, whose sentences all read a_dot:
\* termination depends neither on the text nor on the visiting order
LiveInit ==
    /\ Init
    /\ processing_direction = "first-to-last"
    /\ reprocessing_rounds \in 0..max_reprocessing_rounds
    /\ data_paragraph \in
           { Some(JoinWords([ i \in 1..n |-> a_dot ])) : n \in 1..MaxSentences }

\* the request's thread always takes its next step: every remote call returns
\* (with an answer or an error) and every sleep ends
LiveSpec == LiveInit /\ [][Next]_vars /\ WF_vars(Next)

\* ------------------------------------------------------------------------
\* The two-sentence scenario
\* ------------------------------------------------------------------------

\* "This is bad. This is also bad."
scenario_paragraph ==
    << "T", "h", "i", "s", " ", "i", "s", " ", "b", "a", "d", ".", " ",
       "T", "h", "i", "s", " ", "i", "s", " ", "a", "l", "s", "o", " ",
       "b", "a", "d", "." >>

\* "This is better."
scenario_revision ==
    << "T", "h", "i", "s", " ", "i", "s", " ", "b", "e", "t", "t", "e",
       "r", "." >>

\* a request for the scenario paragraph without reprocessing, to a remote
\* service whose only revision text is scenario_revision
ScenarioInit ==
    /\ deployment \in Deployments
    /\ data_paragraph = Some(scenario_paragraph)
    /\ processing_direction \in
           IF deployment = "api" THEN Directions ELSE {"first-to-last"}
    /\ reprocessing_rounds = 0
    /\ remote_revisions = {scenario_revision}
    /\ InitLocals

ScenarioSpec == ScenarioInit /\ [][Next]_vars

\* "b. b.": a revision text that holds two sentences
two_sentence_revision == b_dot \o <<" ">> \o b_dot

\* a request for the paragraph "a. a.", with at most one reprocessing round, to a
\* remote service whose only revision text is two_sentence_revision
RevisionInit ==
    /\ deployment \in Deployments
    /\ data_paragraph = Some(a_dot \o <<" ">> \o a_dot)
    /\ processing_direction \in
           IF deployment = "api" THEN Directions ELSE {"first-to-last"}
    /\ reprocessing_rounds \in IF deployment = "api" THEN 0..1 ELSE {0}
    /\ remote_revisions = {two_sentence_revision}
    /\ InitLocals

RevisionSpec == RevisionInit /\ [][Next]_vars

\* ------------------------------------------------------------------------
\* Two requests served concurrently by backend/app.py
\* ------------------------------------------------------------------------

\* the two requests, each served by a thread of its own; both call the
\* process-wide `processor`
Threads == {1, 2}

\* variant of buffer_owner: the paragraph buffer is kept on the processor
\* singleton, one for all requests
buffer_owner_shared(t) == 0

\* process_paragraph: current_paragraph and current_sentences are locals of the
\* call, so each request's buffer is its own
buffer_owner(t) == t

NoBuffer == [ current_paragraph |-> <<>>, current_sentences |-> <<>> ]

\* value of a request's report before process_paragraph returns
NoThreadReport ==
    [ original_paragraph |-> <<>>, final_paragraph |-> <<>>,
      sentence_results |-> <<>>, total_sentences |-> 0,
      successful_analyses |-> 0, failed_analyses |-> 0 ]

\* a request for paragraph p that analyze_paragraph has not read yet
IdleThread(p) ==
    [ pc |-> "post", data_paragraph |-> p, paragraph |-> <<>>,
      original_sentences |-> <<>>, i |-> 0, results |-> <<>>,
      report |-> NoThreadReport ]

\* what process_sentence can return apart from the sentence and its index: the
\* failure dictionary, a success without a revision, a success with a revision
SentenceAnswers ==
    { [ success |-> FALSE, improved_sentence |-> None,
        error |-> Some(http_error.msg) ],
      [ success |-> TRUE, improved_sentence |-> None, error |-> None ] }
        \cup { [ success |-> TRUE, improved_sentence |-> Some(c), error |-> None ] :
                   c \in remote_revisions }

\* process_sentence: the dictionary returned for sentence i with answer a
sentence_outcome(i, sentence, a) ==
    [ sentence_index |-> i, sentence |-> sentence,
      improved_sentence |-> a.improved_sentence, success |-> a.success,
      error |-> a.error ]

\* the buffer request t reads and writes
buffer_of(t) == buffers[buffer_owner(t)]

\* current_sentences[i] raises IndexError when the list is too short; the error
\* leaves process_paragraph and analyze_paragraph answers with status 500
index_error(t) ==
    threads' = [ threads EXCEPT ![t].pc = "raised" ]

\* analyze_paragraph up to the loop of process_paragraph
analyze_paragraph(t) ==
    /\ threads[t].pc = "post"
    /\ LET p == strip(threads[t].data_paragraph)
       IN  /\ threads' = [ threads EXCEPT ![t].pc = "sentence",
                                          ![t].paragraph = p,
                                          ![t].original_sentences = split_paragraph(p),
                                          ![t].i = 0,
                                          ![t].results = <<>> ]
           /\ buffers' = [ buffers EXCEPT ![buffer_owner(t)] =
                               [ current_paragraph |-> p,
                                 current_sentences |-> split_paragraph(p) ] ]
    /\ UNCHANGED handler_state

\* one iteration of the loop up to `results.append(result)`: the sentence is
\* read from the buffer and process_sentence returns its dictionary
process_sentence(t) ==
    /\ threads[t].pc = "sentence"
    /\ threads[t].i < Len(threads[t].original_sentences)
    /\ IF threads[t].i + 1 > Len(buffer_of(t).current_sentences)
       THEN index_error(t)
       ELSE \E a \in SentenceAnswers :
               LET r == sentence_outcome(threads[t].i,
                                         buffer_of(t).current_sentences[threads[t].i + 1],
                                         a)
               IN  threads' = [ threads EXCEPT ![t].pc = "update",
                                               ![t].results = Append(@, r) ]
    /\ UNCHANGED buffers
    /\ UNCHANGED handler_state

\* the rest of the iteration: the guarded update of the paragraph and the list
apply_improvement(t) ==
    /\ threads[t].pc = "update"
    /\ LET i == threads[t].i
           r == threads[t].results[Len(threads[t].results)]
           b == buffer_of(t)
       IN  IF i + 1 > Len(b.current_sentences)
           THEN /\ index_error(t)
                /\ UNCHANGED buffers
           ELSE /\ buffers' = [ buffers EXCEPT ![buffer_owner(t)] =
                        [ current_paragraph |->
                              updated_paragraph(b.current_paragraph,
                                                b.current_sentences[i + 1], r),
                          current_sentences |->
                              updated_sentences(b.current_sentences, i, r) ] ]
                /\ threads' = [ threads EXCEPT ![t].pc = "sentence",
                                               ![t].i = i + 1 ]
    /\ UNCHANGED handler_state

\* process_paragraph's return value, sent by analyze_paragraph
analyze_paragraph_return(t) ==
    /\ threads[t].pc = "sentence"
    /\ threads[t].i >= Len(threads[t].original_sentences)
    /\ LET sorted == sorted_results(threads[t].results)
       IN  threads' = [ threads EXCEPT
               ![t].pc = "done",
               ![t].report =
                   [ original_paragraph |-> threads[t].paragraph,
                     final_paragraph |-> buffer_of(t).current_paragraph,
                     sentence_results |-> sorted,
                     total_sentences |-> Len(threads[t].original_sentences),
                     successful_analyses |-> count_success(sorted, TRUE),
                     failed_analyses |-> count_success(sorted, FALSE) ] ]
    /\ UNCHANGED buffers
    /\ UNCHANGED handler_state

\* the two requests arrive with their paragraphs; nothing else runs
ConcurrentInit ==
    /\ IdleHandler
    /\ deployment = "backend"
    /\ data_paragraph = None
    /\ processing_direction = "first-to-last"
    /\ reprocessing_rounds = 0
    /\ remote_revisions = Revisions
    /\ threads \in [ Threads -> { IdleThread(p) : p \in Paragraphs } ]
    /\ buffers = [ o \in Threads \cup {0} |-> NoBuffer ]

\* a step of one of the two threads, in any interleaving
ConcurrentNext ==
    \E t \in Threads :
        \/ analyze_paragraph(t)
        \/ process_sentence(t)
        \/ apply_improvement(t)
        \/ analyze_paragraph_return(t)

ConcurrentSpec == ConcurrentInit /\ [][ConcurrentNext]_vars

\* ------------------------------------------------------------------------
\* Properties
\* ------------------------------------------------------------------------

Min2(x, y) == IF x <= y THEN x ELSE y

\* the outcomes recorded so far, of the finished rounds and of the running one
AllOutcomes ==
    UNION { { all_rounds_results[k].results[j] :
                  j \in 1..Len(all_rounds_results[k].results) } :
            k \in 1..Len(all_rounds_results) }
        \cup { round_results[j] : j \in 1..Len(round_results) }

\* the paragraph round k (1-based) started from
ParagraphAtRoundStart(k) ==
    IF k = 1 THEN paragraph ELSE all_rounds_results[k - 1].paragraph_after_round

\* C1 as stated: in api/analyze.py the wait performed before poll attempt k is
\* schedule[min(k-1, n)] (0-based schedule), taken for the attempts a wait
\* precedes.  With check_count polls done, the next poll is attempt
\* check_count + 1 and current_backoff is the wait performed before it.
C1_WaitBeforeAttempt ==
    (deployment = "api" /\ pc = "poll" /\ check_count >= 1)
        => current_backoff =
               backoff_intervals[Min2(check_count + 1, Len(backoff_intervals))]

\* C1 amended: in api/analyze.py the wait performed after the k-th poll found the
\* session busy (the wait before attempt k+1) is schedule[min(k-1, n)]; once the
\* schedule is exhausted every later wait is its final value 1.
C1_WaitAfterAttempt ==
    (deployment = "api" /\ pc = "poll" /\ check_count >= 1)
        => /\ current_backoff =
                  backoff_intervals[Min2(check_count, Len(backoff_intervals))]
           /\ check_count > Len(backoff_intervals) => current_backoff = 1

\* C1 witness: the schedule is exhausted and the loop still waits
C1_Witness ==
    /\ deployment = "api"
    /\ pc = "poll"
    /\ check_count > Len(backoff_intervals) + 1
    /\ current_backoff = 1

\* C2: wait_till_idle returns normally only when the last poll saw "idle"; after
\* any number of busy polls it is still polling; an error of the poll call ends
\* it with a failed outcome for the sentence being visited, and nothing is raised
\* to process_paragraph.
C2_IdleOrPollError ==
    /\ pc \in {"messages", "fetch"} => session_status = "idle"
    /\ (pc = "poll" /\ check_count >= 1) => session_status = "active"
    /\ (pc = "update" /\ last_call = "poll")
           => /\ ~result.success
              /\ result.error # None
              /\ result.sentence_index = cur_index
              /\ Len(round_results) = processing_order
    /\ pc # "raised"

\* C2 witness: after an earlier sentence of the round succeeded, a poll error
\* ended the wait for the second one
C2_Witness ==
    /\ pc = "update"
    /\ last_call = "poll"
    /\ ~result.success
    /\ Len(round_results) = 1
    /\ round_results[1].success

C4_PerSentenceIsolation ==
    /\ (pc = "update" /\ last_call \in {"create", "submit"})
           => /\ ~result.success
              /\ result.error # None
              /\ result.error[1] # ""
              /\ result.sentence_index = cur_index
    /\ \A r \in AllOutcomes : ~r.success => (r.error # None /\ r.error[1] # "")
    /\ pc = "done" =>
           \A k \in 1..Len(report.all_rounds_results) :
               { report.all_rounds_results[k].results[j].sentence_index :
                     j \in 1..Len(report.all_rounds_results[k].results) }
                   = 0..(Len(split_paragraph(ParagraphAtRoundStart(k))) - 1)
    /\ pc # "raised"

\* C4 witness: the report holds a sentence whose session creation failed (the
\* body had no id) next to a sentence that succeeded
C4_Witness ==
    /\ pc = "done"
    /\ \E j, k \in 1..Len(report.sentence_results) :
          /\ report.sentence_results[j].error = Some(missing_id.msg)
          /\ report.sentence_results[k].success

\* q is p with the first occurrence of old replaced by new, and old occurs in p
RevisionInPlace(p, old, new, q) ==
    \E i \in 1..Len(p) :
        /\ OccursAt(p, old, i)
        /\ \A j \in 1..(i - 1) : ~OccursAt(p, old, j)
        /\ q = SubSeq(p, 1, i - 1) \o new \o SubSeq(p, i + Len(old), Len(p))

\* C5: whenever a step's outcome is successful with a non-empty revision, the
\* paragraph right after the step holds the revision in place of the first
\* occurrence of the sentence that was revised.
C5_RevisionReplacesSentence ==
    [][ (pc = "update" /\ result.success /\ is_truthy(result.improved_sentence))
            => RevisionInPlace(current_paragraph, result.sentence,
                               result.improved_sentence[1], current_paragraph')
      ]_vars

\* C6: when every sentence outcome of every round is a failure, the final
\* paragraph of the report is the original paragraph.
C6_AllFailedKeepsParagraph ==
    (pc = "done" /\ \A r \in AllOutcomes : ~r.success)
        => /\ report.final_paragraph = paragraph
           /\ report.original_paragraph = paragraph
           /\ ~report.paragraph_updated

\* C6 witness: two rounds over two sentences visited last-to-first, all failed
C6_Witness ==
    /\ pc = "done"
    /\ processing_direction = "last-to-first"
    /\ Len(all_rounds_results) = 2
    /\ Cardinality(AllOutcomes) = 4
    /\ \A r \in AllOutcomes : ~r.success

C8_RoundReports ==
    (pc = "done" /\ deployment = "api")
        => /\ Len(report.all_rounds_results) = reprocessing_rounds + 1
           /\ \A k \in 1..Len(report.all_rounds_results) :
                 report.all_rounds_results[k].round = k
           /\ report.total_rounds_processed = reprocessing_rounds + 1

\* C8 witness: a request with one reprocessing round has returned
C8_Witness ==
    /\ pc = "done"
    /\ deployment = "api"
    /\ reprocessing_rounds = 1
    /\ report.total_rounds_processed = 2

\* x is in strictly ascending sentence-index order
AscendingByIndex(rs) ==
    \A j \in 1..(Len(rs) - 1) : rs[j].sentence_index < rs[j + 1].sentence_index

\* C9: sentence_results of the final report is in strictly ascending
\* sentence-index order, for both directions and any successes and failures.
C9_ReportAscending ==
    pc = "done" => AscendingByIndex(report.sentence_results)

\* C9 witness: a last-to-first request over two sentences, one failed and one
\* succeeded, has returned
C9_Witness ==
    /\ pc = "done"
    /\ processing_direction = "last-to-first"
    /\ Len(report.sentence_results) = 2
    /\ report.failed_analyses = 1
    /\ report.successful_analyses = 1

\* C10: every round report of all_rounds_results holds the round's outcomes
\* sorted by sentence index, with the paragraph as it is after the round.
C10_RoundReportsSorted ==
    \A k \in 1..Len(all_rounds_results) :
        /\ AscendingByIndex(all_rounds_results[k].results)
        /\ (k = Len(all_rounds_results) /\ pc = "round")
               => all_rounds_results[k].paragraph_after_round = current_paragraph

\* the sentence is being processed: a call for it may be issued or has been
InSentence == pc \in {"submit", "poll", "messages", "fetch", "update"}

\* C11: when the paragraph has more sentences than max_sentences_safe,
\* process_paragraph of api/analyze.py sends only the sentences of the prefix to
\* the remote service and reports outcomes only for them, and the logs returned
\* with the report hold the truncation notice.
C11_TruncatedToPrefix ==
    (deployment = "api" /\ Len(split_paragraph(paragraph)) > max_sentences_safe)
        => /\ (remote_called /\ InSentence) => cur_index < max_sentences_safe
           /\ \A r \in AllOutcomes : r.sentence_index < max_sentences_safe
           /\ pc = "done" =>
                  /\ Len(report.sentence_results) <= max_sentences_safe
                  /\ \E j \in 1..Len(report.logs) :
                        report.logs[j] = "truncation_notice"

\* the request body passes the validation the handler is to perform: a paragraph
\* that is not empty once stripped and, for api/analyze.py, one of the two
\* directions and a number of reprocessing rounds of 0 or 1
RequestIsValid ==
    /\ data_paragraph # None
    /\ strip(data_paragraph[1]) # <<>>
    /\ deployment = "api" =>
           /\ processing_direction \in {"first-to-last", "last-to-first"}
           /\ reprocessing_rounds \in {0, 1}

\* C12: a request with a validation failure (paragraph missing or empty,
\* reprocessing_rounds outside {0, 1}, another processing_direction) is answered
\* with an error response, and no remote call is ever issued for it.
C12_InvalidRequestRejected ==
    ~RequestIsValid
        => /\ pc \in {"post", "rejected"}
           /\ ~remote_called
           /\ last_call = "none"
           /\ message = None
           /\ pc = "rejected" =>
                  /\ response # None
                  /\ response[1].status = 400
                  /\ response[1].error # ""
           /\ pc = "post" => response = None

\* C12 witness: a request whose only fault is reprocessing_rounds = 2 has been
\* rejected
C12_Witness ==
    /\ pc = "rejected"
    /\ deployment = "api"
    /\ data_paragraph # None
    /\ strip(data_paragraph[1]) # <<>>
    /\ processing_direction = "last-to-first"
    /\ reprocessing_rounds = 2
    /\ response = Some([ status |-> 400, error |-> "Invalid reprocessing_rounds" ])

\* C13: Stage A of get_result issues at most 5 message queries for the session
\* (retries counts the queries that exposed no handle); it goes on only after a
\* query without a handle and leaves for Stage B at the first query that exposes
\* one; after the fifth query without a handle get_result returns None, the
\* outcome is not a failure and no result fetch was issued.
C13_StageABounded ==
    /\ [](pc = "messages" => (retries < 5 /\ result_id = None))
    /\ [](pc = "fetch" => result_id # None)
    /\ []((pc = "update" /\ last_call = "messages" /\ ~last_call_failed)
              => (result.success /\ result.improved_sentence = None
                     /\ analysis = None))
    /\ [][ pc = "messages"
              => \/ pc' = "messages" /\ retries' = retries + 1 /\ result_id' = None
                 \/ pc' = "fetch" /\ result_id' # None /\ last_call' = "messages"
                 \/ pc' = "update" /\ last_call' = "messages"
                       /\ (~last_call_failed' => retries = 4)
         ]_vars

\* C13 witness: the fifth message query found no handle and get_result has
\* returned None
C13_Witness ==
    /\ pc = "update"
    /\ last_call = "messages"
    /\ ~last_call_failed
    /\ result.success
    /\ analysis = None

\* C14: Stage B of get_result makes at most 3 fetch attempts for the handle
\* (retries counts the failed ones); an attempt that succeeds ends it with that
\* attempt's payload as get_result's value, another attempt follows only a
\* failed one, and after the third failure get_result returns None: the
\* outcome is not a failure and nothing is raised.
C14_StageBBounded ==
    /\ [](pc = "fetch" => (retries < 3 /\ result_id # None))
    /\ []((pc = "update" /\ last_call = "fetch")
              => /\ result.success
                 /\ result.error = None
                 /\ last_call_failed => analysis = None
                 /\ ~last_call_failed =>
                        \/ analysis = None
                        \/ analysis # None /\ analysis[1] \in Payloads)
    /\ [](pc # "raised")
    /\ [][ pc = "fetch"
              => \/ /\ pc' = "fetch"
                    /\ last_call_failed'
                    /\ retries' = retries + 1
                    /\ result_id' = result_id
                 \/ /\ pc' = "update"
                    /\ last_call' = "fetch"
                    /\ last_call_failed' => retries = 2
         ]_vars

\* C14 witness: the third fetch attempt failed and the sentence's outcome is a
\* success without a revision
C14_Witness ==
    /\ pc = "update"
    /\ last_call = "fetch"
    /\ last_call_failed
    /\ result.success
    /\ result.improved_sentence = None

\* C15: when Stage A never finds a handle and get_result returns None, the
\* sentence's outcome is a success with improved_sentence None, and the step
\* that records it leaves the paragraph and the sentence list as they are.
C15_NoHandleIsNoFailure ==
    /\ []((pc = "update" /\ last_call = "messages" /\ ~last_call_failed)
              => (result.success /\ result.improved_sentence = None
                     /\ result.error = None))
    /\ [][ (pc = "update" /\ last_call = "messages" /\ ~last_call_failed)
              => /\ current_paragraph' = current_paragraph
                 /\ current_sentences' = current_sentences
                 /\ Len(round_results') = Len(round_results) + 1
                 /\ round_results'[Len(round_results')].success
                 /\ round_results'[Len(round_results')].improved_sentence = None
         ]_vars

\* C15 witness: get_result found no handle for the second sentence visited,
\* after the first one was revised
C15_Witness ==
    /\ pc = "update"
    /\ last_call = "messages"
    /\ ~last_call_failed
    /\ result.success
    /\ Len(round_results) = 1
    /\ current_paragraph # paragraph

\* what extract_improved_sentence is to return for payload p: the 'content'
\* entry when p is an object that has one and it is not empty, None otherwise
ContentOrNone(p) ==
    IF p.kind \in {"null", "array"} THEN None
    ELSE IF p.kind \in {"empty_object", "no_content"} THEN None
    ELSE IF p.content = <<>> THEN None
    ELSE Some(p.content)

\* C16: extract_improved_sentence returns the payload's 'content' when the
\* payload is an object whose 'content' is present and not empty, and None when
\* it is absent or empty or the payload is not an object; it never raises: the
\* outcome of a sentence whose fetch returned a payload is a success whose
\* improved_sentence is that value.
C16_ExtractContent ==
    /\ \A p \in Payloads : extract_improved_sentence(p) = ContentOrNone(p)
    /\ (pc = "update" /\ last_call = "fetch" /\ analysis # None)
           => /\ result.success
              /\ result.error = None
              /\ result.improved_sentence = ContentOrNone(analysis[1])

\* C16 witness: an outcome is pending for a payload with a non-empty 'content',
\* and its improved sentence is that text
C16_Witness ==
    /\ pc = "update"
    /\ last_call = "fetch"
    /\ analysis # None
    /\ analysis[1].kind = "content"
    /\ analysis[1].content # <<>>
    /\ result.improved_sentence = Some(analysis[1].content)

\* the persona the requests of round k (0-based) are to carry
PersonaOfRound(k) == IF k = 0 THEN initial_author ELSE reprocessing_author

\* C17: every request submitted in round 0 carries the initial persona and every
\* request submitted in a later round the reprocessing persona, so the persona
\* is the same for all requests and outcomes of a round.
C17_PersonaPerRound ==
    /\ message # None => message[1].author = PersonaOfRound(round_num)
    /\ (pc = "sentence" \/ InSentence) =>
           \A j \in 1..Len(round_results) :
               round_results[j].author_used = PersonaOfRound(round_num)
    /\ \A k \in 1..Len(all_rounds_results) :
          \A j \in 1..Len(all_rounds_results[k].results) :
              all_rounds_results[k].results[j].author_used = PersonaOfRound(k - 1)

\* C17 witness: the second request of the reprocessing round has been submitted
\* with the reprocessing persona, after a first round under the initial one
C17_Witness ==
    /\ round_num = 1
    /\ message # None
    /\ message[1].author = reprocessing_author
    /\ Len(round_results) = 1
    /\ all_rounds_results[1].results[1].author_used = initial_author

InFlight == IF pc \in {"submit", "poll", "messages", "fetch"} THEN 1 ELSE 0

C20_ShortCircuit ==
    /\ []((last_call \in {"create", "submit"} /\ last_call_failed)
              => /\ pc = "update"
                 /\ ~result.success
                 /\ result.error # None
                 /\ result.error[1] # ""
                 /\ result.improved_sentence = None
                 /\ analysis = None
                 /\ last_call = "create" => message = None)
    /\ [][ (last_call \in {"create", "submit"} /\ last_call_failed)
              => /\ last_call' = "none"
                 /\ pc' = "sentence"
                 /\ round_results' =
                        Append(round_results,
                               [ result EXCEPT !.round = round_num + 1,
                                               !.is_reprocessing = round_num > 0 ])
                 /\ current_paragraph' = current_paragraph
         ]_vars

\* C20 witness: the submission for the second sentence visited has failed
C20_Witness ==
    /\ pc = "update"
    /\ last_call = "submit"
    /\ last_call_failed
    /\ message # None
    /\ ~result.success
    /\ result.error = Some(http_error.msg)
    /\ Len(round_results) = 1

\* C21: session creation and submission are never retried: while a sentence of
\* a round is processed exactly one creation call has been issued for it and at
\* most one submission call (none when the creation failed), whatever the
\* calls returned; between sentences no call is counted.
C21_NoRetryOfCreateAndSubmit ==
    /\ calls.create <= 1
    /\ calls.submit <= 1
    /\ InSentence => calls.create = 1
    /\ pc = "submit" => calls.submit = 0
    /\ pc \in {"poll", "messages", "fetch"} => calls.submit = 1
    /\ pc = "update" => calls.submit = (IF last_call = "create" THEN 0 ELSE 1)
    /\ ~InSentence => calls = NoCalls

\* C21 witness: in the reprocessing round a session creation failed and the
\* sentence's outcome is pending after that single call
C21_Witness ==
    /\ pc = "update"
    /\ round_num = 1
    /\ last_call = "create"
    /\ last_call_failed
    /\ calls = [ create |-> 1, submit |-> 0 ]
    /\ ~result.success

\* C22: while calls are issued for a sentence, every sentence visited before it
\* in the round has its outcome recorded, in visiting order, and its update
\* applied to the sentence list; the session and the submitted request are those
\* of the sentence being visited, so no call of a later sentence is issued before
\* the current one is finished.
C22_OneSentenceAtATime ==
    InSentence
        => /\ Len(round_results) = processing_order
           /\ \A j \in 1..Len(round_results) :
                 LET r == round_results[j]
                 IN  /\ r.sentence_index =
                            processing_indices(processing_direction,
                                               Len(current_sentences))[j]
                     /\ r.sentence_index # cur_index
                     /\ should_update(r) =>
                            current_sentences[r.sentence_index + 1]
                                = r.improved_sentence[1]
           /\ session_id # None => session_id = Some(<< round_num + 1, cur_index >>)
           /\ message # None =>
                  message[1].sentence = current_sentences[cur_index + 1]
           /\ pc # "update" => result = NoResult

\* C22 witness: visiting last to first, the calls of the first sentence are
\* under way after the second sentence was revised
C22_Witness ==
    /\ pc = "poll"
    /\ processing_direction = "last-to-first"
    /\ processing_order = 1
    /\ cur_index = 0
    /\ should_update(round_results[1])
    /\ round_results[1].sentence_index = 1

\* the outcomes recorded so far in the order of their steps: those of the
\* finished rounds, then those of the running round
RECURSIVE OutcomesOfRounds(_)
OutcomesOfRounds(k) ==
    IF k = 0 THEN <<>>
    ELSE OutcomesOfRounds(k - 1) \o all_rounds_results[k].results

EarlierOutcomes ==
    OutcomesOfRounds(Len(all_rounds_results))
        \o (IF pc \in {"round", "done"} THEN <<>> ELSE round_results)

\* p after the replacements of the steps rs, in order: a step that was
\* successful with a non-empty revision puts the revision in place of the first
\* occurrence of its sentence, every other step changes nothing
RECURSIVE WithReplacements(_, _)
WithReplacements(p, rs) ==
    IF rs = <<>> THEN p
    ELSE LET r == Head(rs)
             q == IF r.success /\ r.improved_sentence # None
                      /\ r.improved_sentence[1] # <<>>
                  THEN replace_first(p, r.sentence, r.improved_sentence[1])
                  ELSE p
         IN  WithReplacements(q, Tail(rs))

\* C23: the context paragraph sent with a sentence's request is the original
\* paragraph with the replacements of all earlier steps (of the earlier rounds
\* and of the same round, in visiting order) that were successful with a
\* non-empty revision, and nothing else; the sentence and the author sent are
\* those of the step.
C23_ContextIsCurrentParagraph ==
    message # None
        => /\ message[1].full_paragraph = WithReplacements(paragraph, EarlierOutcomes)
           /\ message[1].sentence = current_sentences[cur_index + 1]

\* C23 witness: in the reprocessing round a request is sent whose context
\* differs from the original paragraph and from the paragraph the round started
\* from
C23_Witness ==
    /\ message # None
    /\ round_num = 1
    /\ processing_order = 1
    /\ message[1].full_paragraph # paragraph
    /\ message[1].full_paragraph # all_rounds_results[1].paragraph_after_round


\* C24: a step whose outcome is unsuccessful, or successful with no revision
\* (none, or the empty text), leaves the current paragraph and the sentence
\* list unchanged.
C24_NoRevisionNoChange ==
    [][ ( /\ pc = "update"
          /\ \/ ~result.success
             \/ result.improved_sentence = None
             \/ result.improved_sentence = Some(<<>>) )
        => UNCHANGED << current_paragraph, current_sentences >> ]_vars

\* C24 witness: after a step that revised a sentence, a step that succeeded
\* without a revision has been recorded, and the paragraph is the one the first
\* step left
C24_Witness ==
    /\ pc = "sentence"
    /\ round_num = 0
    /\ Len(round_results) = 2
    /\ round_results[1].success
    /\ round_results[1].improved_sentence = Some(b_dot)
    /\ round_results[2].success
    /\ round_results[2].improved_sentence = None
    /\ current_paragraph
         = replace_first(paragraph, round_results[1].sentence, b_dot)
    /\ current_paragraph # paragraph


\* C25: get_result goes on to Stage B only with a non-empty handle: a result_id
\* that is present but empty is not accepted, and no fetch is issued with it.
C25_FetchOnlyWithNonEmptyHandle ==
    pc = "fetch" => (result_id # None /\ result_id[1] # "")


\* C26: every message the client passes to log_and_store while the request is
\* processed appears in the logs of the report.
C26_ClientLinesInReportLogs ==
    (pc = "done" /\ deployment = "api")
        => \A k \in log_collector : \E j \in 1..Len(report.logs) : report.logs[j] = k


\* C27: the rounds are chained through the paragraph.  The first round starts
\* from the original paragraph; every later round segments exactly the paragraph
\* snapshot stored in the previous round's report; a round's snapshot is the
\* paragraph the round started from with the round's replacements; and
\* final_paragraph is the snapshot of the last round's report.
C27_RoundsChained ==
    deployment = "api"
        => /\ ((pc = "sentence" \/ InSentence) /\ processing_order = 0)
                 => /\ current_paragraph = ParagraphAtRoundStart(round_num + 1)
                    /\ current_sentences
                         = split_paragraph(ParagraphAtRoundStart(round_num + 1))
           /\ \A k \in 1..Len(all_rounds_results) :
                 LET rs == all_rounds_results[k].results
                     start == split_paragraph(ParagraphAtRoundStart(k))
                 IN  /\ all_rounds_results[k].paragraph_after_round
                          = WithReplacements(ParagraphAtRoundStart(k), rs)
                     /\ rs # <<>>
                          => rs[1].sentence = start[rs[1].sentence_index + 1]
           /\ pc = "done"
                 => /\ report.original_paragraph = ParagraphAtRoundStart(1)
                    /\ report.final_paragraph =
                          report.all_rounds_results[Len(report.all_rounds_results)]
                              .paragraph_after_round

\* C27 witness: a request of two rounds has returned; the first round changed the
\* paragraph, the second round visited the sentences of the first round's
\* snapshot and changed the paragraph again
C27_Witness ==
    /\ pc = "done"
    /\ deployment = "api"
    /\ Len(report.all_rounds_results) = 2
    /\ report.all_rounds_results[1].paragraph_after_round # paragraph
    /\ report.all_rounds_results[2].paragraph_after_round
         # report.all_rounds_results[1].paragraph_after_round
    /\ report.all_rounds_results[2].results[1].sentence \notin
         { split_paragraph(paragraph)[i] : i \in 1..Len(split_paragraph(paragraph)) }
    /\ report.final_paragraph = report.all_rounds_results[2].paragraph_after_round


\* C28: in the report of api/analyze.py, total_sentences equals
\* successful_analyses + failed_analyses and equals the number of entries of
\* sentence_results.
C28_CountsAgree ==
    (pc = "done" /\ deployment = "api")
        => /\ report.total_sentences
                = report.successful_analyses + report.failed_analyses
           /\ report.total_sentences = Len(report.sentence_results)


\* C29: for every sentence the remote protocol runs in the order create, submit,
\* poll until idle, messages, fetch.  The submission follows a successful
\* creation; a poll is issued only after the submission succeeded; the messages
\* are queried and the analysis is fetched only after a poll of the same session
\* returned idle; the fetch follows a query that gave a result_id.
C29_ProtocolOrder ==
    /\ pc = "sentence" => (last_call = "none" /\ session_id = None)
    /\ pc = "submit"
          => /\ last_call = "create" /\ ~last_call_failed
             /\ session_id # None
             /\ message = None
             /\ check_count = 0
    /\ pc = "poll"
          => /\ last_call \in {"submit", "poll"} /\ ~last_call_failed
             /\ last_call = "submit" <=> check_count = 0
             /\ session_id # None
             /\ message # None /\ calls.submit = 1
             /\ session_status # "idle"
             /\ result_id = None
    /\ pc = "messages"
          => /\ last_call \in {"poll", "messages"} /\ ~last_call_failed
             /\ session_id # None
             /\ message # None
             /\ check_count >= 1 /\ session_status = "idle"
             /\ result_id = None
    /\ pc = "fetch"
          => /\ last_call \in {"messages", "fetch"}
             /\ last_call = "messages" => ~last_call_failed
             /\ last_call = "fetch" <=> retries >= 1
             /\ session_id # None
             /\ message # None
             /\ check_count >= 1 /\ session_status = "idle"
             /\ result_id # None

\* C29 witness: in the reprocessing round a session that was busy at two polls
\* and idle at the third has given a result_id, and the fetch is being retried
\* after a failure
C29_Witness ==
    /\ pc = "fetch"
    /\ round_num = 1
    /\ check_count = 3
    /\ last_call = "fetch"
    /\ last_call_failed
    /\ retries = 1
    /\ calls = [ create |-> 1, submit |-> 1 ]


\* C30: after every step of a round the in-memory sentence list equals the
\* segmentation of the current paragraph, whatever the revision text is (a
\* revision holding terminal punctuation followed by whitespace included), so
\* every sentence not yet visited still occurs in the paragraph at its own
\* position.
C30_ListIsSegmentation ==
    (pc = "sentence" \/ InSentence)
        => current_sentences = split_paragraph(current_paragraph)


\* C32: a transport error of a Stage A message query of get_result is neither
\* retried nor turned into none: it leaves get_result and the sentence's outcome
\* is failed, with the error recorded and no revision.  A transport error of a
\* Stage B fetch is caught: the fetch is retried, and when the retries are
\* exhausted get_result returns none and the outcome is a success without a
\* revision.
C32_StageAErrorFailsSentence ==
    /\ (last_call = "messages" /\ last_call_failed)
          => /\ pc = "update"
             /\ ~result.success
             /\ result.error = Some(http_error.msg)
             /\ result.improved_sentence = None
             /\ result.sentence_index = cur_index
    /\ (last_call = "fetch" /\ last_call_failed)
          => \/ pc = "fetch" /\ retries \in 1..(stage_b_max_retries - 1)
             \/ /\ pc = "update"
                /\ result.success
                /\ result.error = None
                /\ result.improved_sentence = None

\* C32 witness: in the reprocessing round, after the first sentence was revised,
\* the message query of the second sentence failed and its outcome is failed
C32_Witness ==
    /\ pc = "update"
    /\ round_num = 1
    /\ last_call = "messages"
    /\ last_call_failed
    /\ ~result.success
    /\ Len(round_results) = 1
    /\ should_update(round_results[1])


\* the remote answers request t has received, in the order of its sentences
AnswersOf(t) ==
    [ j \in 1..Len(threads[t].results) |->
          [ success |-> threads[t].results[j].success,
            improved_sentence |-> threads[t].results[j].improved_sentence,
            error |-> threads[t].results[j].error ] ]

\* the buffer and the outcomes of a request that runs alone, after its first n
\* sentences got the answers as[1..n]; st is the state the run has reached
RECURSIVE AloneRun(_, _, _)
AloneRun(st, as, n) ==
    IF Len(st.results) >= n THEN st
    ELSE LET i == Len(st.results)
             r == sentence_outcome(i, st.current_sentences[i + 1], as[i + 1])
         IN  AloneRun([ current_paragraph |->
                            updated_paragraph(st.current_paragraph,
                                              st.current_sentences[i + 1], r),
                        current_sentences |->
                            updated_sentences(st.current_sentences, i, r),
                        results |-> Append(st.results, r) ],
                      as, n)

\* the run alone of request t over its first n sentences
AloneOf(t, n) ==
    AloneRun([ current_paragraph |-> threads[t].paragraph,
               current_sentences |-> split_paragraph(threads[t].paragraph),
               results |-> <<>> ],
             AnswersOf(t), n)

\* C31: two requests served concurrently through the processor singleton of
\* backend/app.py do not interfere.  In every interleaving of their steps, at
\* every moment each request's paragraph buffer and recorded outcomes are those
\* of the request run alone against the same remote answers, no request fails
\* on the other's account, and the report it returns has the final paragraph
\* and the sentence outcomes of the run alone.
C31_RequestsDoNotInterfere ==
    \A t \in DOMAIN threads :
        /\ threads[t].pc # "raised"
        /\ threads[t].pc \in {"sentence", "update"}
              => /\ buffer_of(t).current_paragraph
                      = AloneOf(t, threads[t].i).current_paragraph
                 /\ buffer_of(t).current_sentences
                      = AloneOf(t, threads[t].i).current_sentences
                 /\ threads[t].results
                      = AloneOf(t, Len(threads[t].results)).results
        /\ threads[t].pc = "done"
              => LET alone == AloneOf(t, Len(split_paragraph(threads[t].paragraph)))
                 IN  /\ Len(threads[t].results)
                          = Len(split_paragraph(threads[t].paragraph))
                     /\ threads[t].report.final_paragraph = alone.current_paragraph
                     /\ threads[t].report.sentence_results = alone.results
                     /\ threads[t].report.original_paragraph = threads[t].paragraph

\* C31 witness: both requests are in flight over different two-sentence
\* paragraphs, each has had its first sentence revised and is about to apply
\* the second sentence's revision, and their buffers differ
C31_Witness ==
    /\ threads # <<>>
    /\ threads[1].paragraph # threads[2].paragraph
    /\ \A t \in Threads :
          /\ threads[t].pc = "update"
          /\ threads[t].i = 1
          /\ Len(threads[t].results) = 2
          /\ should_update(threads[t].results[1])
          /\ should_update(threads[t].results[2])
          /\ buffer_of(t).current_paragraph # threads[t].paragraph
    /\ buffer_of(1) # buffer_of(2)

====
